---- MODULE Spec2Model ----
(***************************************************************************)
(* Model of src/main.rs: process() folds a CSV stream of transaction rows  *)
(* into a map of client accounts and then dumps one output row per         *)
(* account.  One action per arm of the match in process(), one for a row   *)
(* that fails to deserialize and one for the end of the stream.            *)
(***************************************************************************)
EXTENDS Integers, Sequences, FiniteSets, TLC

(***************************************************************************)
(* Bounds of the model.                                                    *)
(***************************************************************************)
\* Number of rows read from the stream in one run.
MaxEvents == 5
\* Width of the signed balance fields in the model (64 in the source).
Bits == 8

\* Client ids (u16 in the source) and transaction ids (u32) that occur.
Clients == {1, 2}
Txs == {1, 2}

(***************************************************************************)
(* Data model.  A field keeps one position in every record that has it:    *)
(* typ, client, tx, amount, dispute_state, locked, available, held, ...    *)
(***************************************************************************)
\* struct InRow
InRow(typ, client, tx, amount) ==
    [typ |-> typ, client |-> client, tx |-> tx, amount |-> amount]

TxType == {"deposit", "withdrawal", "dispute", "resolve", "chargeback"}
DisputeState == {"NotInitiated", "Initiated", "ChargedBack"}

Deposit(state, amount) == [amount |-> amount, dispute_state |-> state]

\* HashMap::new()
EmptyMap == [k \in {} |-> 0]

\* #[derive(Default)] struct Account
Account == [locked |-> FALSE, available |-> 0, held |-> 0, deposits |-> EmptyMap]

\* HashMap::insert: adds the key or overwrites its value.
insert(m, k, v) == [x \in DOMAIN m \cup {k} |-> IF x = k THEN v ELSE m[x]]

\* Variant of entry_or_default: a new client's account replaces the map.
entry_or_default_alone(accs, client) ==
    IF client \in DOMAIN accs THEN accs ELSE [c \in {client} |-> Account]

\* accounts.entry(client).or_default(): the map with the client's account
\* present, created with default values when it was absent.
entry_or_default(accs, client) ==
    IF client \in DOMAIN accs THEN accs ELSE insert(accs, client, Account)

(***************************************************************************)
(* Input amounts.  The CSV amount is a decimal in major units; the model   *)
(* writes it in units of 1/SubMinor of a minor unit so that the truncation *)
(* of to_minor is visible.  Negative amounts parse as f64 like any other.  *)
(***************************************************************************)
SubMinor == 10
Amounts == {-15, 10, 25}

\* Option<f64>
None == << >>
Some(a) == << a >>
IsSome(o) == Len(o) = 1
Unwrap(o) == o[1]

I64_MAX == 2 ^ (Bits - 1) - 1
I64_MIN == -(2 ^ (Bits - 1))

\* Two's complement wrap of a mathematical integer into the balance width.
wrap(x) == ((x - I64_MIN) % (2 ^ Bits)) + I64_MIN
\* Variant of wrapping_add: the sum is kept in a field one bit narrower.
wrapping_add_narrow(x, y) ==
    ((x + y + 2 ^ (Bits - 2)) % (2 ^ (Bits - 1))) - 2 ^ (Bits - 2)

wrapping_add(x, y) == wrap(x + y)
wrapping_sub(x, y) == wrap(x - y)

\* `(amount * 10_000_f64) as i64`: the cast truncates toward zero and
\* saturates at the ends of the range.
to_minor(amount) ==
    LET t == IF amount >= 0 THEN amount \div SubMinor
                            ELSE -((-amount) \div SubMinor)
    IN  IF t > I64_MAX THEN I64_MAX
        ELSE IF t < I64_MIN THEN I64_MIN
        ELSE t

(***************************************************************************)
(* The arms of the match in process(), as functions on one account.        *)
(***************************************************************************)
\* `if let Some(d) = acc.deposits.get_mut(&row.tx)` and
\* `matches!(d.dispute_state, state)`.
in_state(acc, tx, state) ==
    /\ tx \in DOMAIN acc.deposits
    /\ acc.deposits[tx].dispute_state = state

\* Variants of apply_deposit: a tx id already used keeps its record; a
\* deposit unlocks the account.
apply_deposit_keep(acc, tx, amount) ==
    [acc EXCEPT !.available = wrapping_add(acc.available, amount),
                !.deposits = IF tx \in DOMAIN acc.deposits
                             THEN acc.deposits
                             ELSE insert(acc.deposits, tx,
                                         Deposit("NotInitiated", amount))]

apply_deposit_unlock(acc, tx, amount) ==
    [acc EXCEPT !.available = wrapping_add(acc.available, amount),
                !.locked = FALSE,
                !.deposits = insert(acc.deposits, tx,
                                    Deposit("NotInitiated", amount))]

\* Variant of apply_deposit: a reused tx keeps the dispute state of the
\* record it overwrites.
apply_deposit_keep_state(acc, tx, amount) ==
    [acc EXCEPT !.available = wrapping_add(acc.available, amount),
                !.deposits = insert(acc.deposits, tx,
                                    Deposit(IF tx \in DOMAIN acc.deposits
                                            THEN acc.deposits[tx].dispute_state
                                            ELSE "NotInitiated", amount))]

apply_deposit(acc, tx, amount) ==
    [acc EXCEPT !.available = wrapping_add(acc.available, amount),
                !.deposits = insert(acc.deposits, tx,
                                    Deposit("NotInitiated", amount))]

\* Variants of apply_withdrawal: funds checked against the total; the lock
\* not checked.
apply_withdrawal_total(acc, amount) ==
    IF ~acc.locked /\ acc.available + acc.held >= amount
    THEN [acc EXCEPT !.available = wrapping_sub(acc.available, amount)]
    ELSE acc

apply_withdrawal_nolock(acc, amount) ==
    IF acc.available >= amount
    THEN [acc EXCEPT !.available = wrapping_sub(acc.available, amount)]
    ELSE acc

\* Variant of apply_withdrawal: the funds are not checked.
apply_withdrawal_overdraw(acc, amount) ==
    IF ~acc.locked
    THEN [acc EXCEPT !.available = wrapping_sub(acc.available, amount)]
    ELSE acc

apply_withdrawal(acc, amount) ==
    IF ~acc.locked /\ acc.available >= amount
    THEN [acc EXCEPT !.available = wrapping_sub(acc.available, amount)]
    ELSE acc

\* Variant of apply_dispute: refused on a locked account.
apply_dispute_unlocked(acc, tx) ==
    IF ~acc.locked /\ in_state(acc, tx, "NotInitiated")
    THEN [acc EXCEPT
            !.deposits[tx].dispute_state = "Initiated",
            !.available = wrapping_sub(acc.available, acc.deposits[tx].amount),
            !.held = wrapping_add(acc.held, acc.deposits[tx].amount)]
    ELSE acc

\* Variant of apply_dispute: a charged back deposit can be disputed again.
apply_dispute_again(acc, tx) ==
    IF in_state(acc, tx, "NotInitiated") \/ in_state(acc, tx, "ChargedBack")
    THEN [acc EXCEPT
            !.deposits[tx].dispute_state = "Initiated",
            !.available = wrapping_sub(acc.available, acc.deposits[tx].amount),
            !.held = wrapping_add(acc.held, acc.deposits[tx].amount)]
    ELSE acc

\* Variant of apply_dispute: the amount is held but not taken out of
\* available.
apply_dispute_nodebit(acc, tx) ==
    IF in_state(acc, tx, "NotInitiated")
    THEN [acc EXCEPT
            !.deposits[tx].dispute_state = "Initiated",
            !.held = wrapping_add(acc.held, acc.deposits[tx].amount)]
    ELSE acc

apply_dispute(acc, tx) ==
    IF in_state(acc, tx, "NotInitiated")
    THEN [acc EXCEPT
            !.deposits[tx].dispute_state = "Initiated",
            !.available = wrapping_sub(acc.available, acc.deposits[tx].amount),
            !.held = wrapping_add(acc.held, acc.deposits[tx].amount)]
    ELSE acc

\* Variant of apply_resolve: the held funds are released but not credited
\* back to available.
apply_resolve_nocredit(acc, tx) ==
    IF in_state(acc, tx, "Initiated")
    THEN [acc EXCEPT
            !.deposits[tx].dispute_state = "NotInitiated",
            !.held = wrapping_sub(acc.held, acc.deposits[tx].amount)]
    ELSE acc

\* Variant of apply_resolve: the funds are released but the deposit stays
\* under dispute.
apply_resolve_stuck(acc, tx) ==
    IF in_state(acc, tx, "Initiated")
    THEN [acc EXCEPT
            !.available = wrapping_add(acc.available, acc.deposits[tx].amount),
            !.held = wrapping_sub(acc.held, acc.deposits[tx].amount)]
    ELSE acc

\* Variant of apply_resolve: the amount is taken out of available instead
\* of returned to it.
apply_resolve_debit(acc, tx) ==
    IF in_state(acc, tx, "Initiated")
    THEN [acc EXCEPT
            !.deposits[tx].dispute_state = "NotInitiated",
            !.available = wrapping_sub(acc.available, acc.deposits[tx].amount),
            !.held = wrapping_sub(acc.held, acc.deposits[tx].amount)]
    ELSE acc

apply_resolve(acc, tx) ==
    IF in_state(acc, tx, "Initiated")
    THEN [acc EXCEPT
            !.deposits[tx].dispute_state = "NotInitiated",
            !.available = wrapping_add(acc.available, acc.deposits[tx].amount),
            !.held = wrapping_sub(acc.held, acc.deposits[tx].amount)]
    ELSE acc

\* Variant of apply_chargeback: the amount is taken out of available too.
apply_chargeback_available(acc, tx) ==
    IF in_state(acc, tx, "Initiated")
    THEN [acc EXCEPT
            !.deposits[tx].dispute_state = "ChargedBack",
            !.available = wrapping_sub(acc.available, acc.deposits[tx].amount),
            !.held = wrapping_sub(acc.held, acc.deposits[tx].amount),
            !.locked = TRUE]
    ELSE acc

\* Variant of apply_chargeback: a deposit is charged back without a
\* dispute.
apply_chargeback_direct(acc, tx) ==
    IF in_state(acc, tx, "Initiated") \/ in_state(acc, tx, "NotInitiated")
    THEN [acc EXCEPT
            !.deposits[tx].dispute_state = "ChargedBack",
            !.held = wrapping_sub(acc.held, acc.deposits[tx].amount),
            !.locked = TRUE]
    ELSE acc

\* Variant of apply_chargeback: the amount stays in held.
apply_chargeback_keep_held(acc, tx) ==
    IF in_state(acc, tx, "Initiated")
    THEN [acc EXCEPT
            !.deposits[tx].dispute_state = "ChargedBack",
            !.locked = TRUE]
    ELSE acc

apply_chargeback(acc, tx) ==
    IF in_state(acc, tx, "Initiated")
    THEN [acc EXCEPT
            !.deposits[tx].dispute_state = "ChargedBack",
            !.held = wrapping_sub(acc.held, acc.deposits[tx].amount),
            !.locked = TRUE]
    ELSE acc

(***************************************************************************)
(* Output.                                                                 *)
(***************************************************************************)
\* format!("{:.4}", amount as f64 / 10_000_f64): sign, whole major units and
\* four decimal digits.
to_major(amount) ==
    LET m == IF amount < 0 THEN -amount ELSE amount
    IN  [neg |-> amount < 0, whole |-> m \div 10000, frac |-> m % 10000]

OutRow(cl, acc) ==
    [client |-> cl,
     locked |-> acc.locked,
     available |-> to_major(acc.available),
     held |-> to_major(acc.held),
     total |-> to_major(wrapping_add(acc.available, acc.held))]

(***************************************************************************)
(* State.                                                                  *)
(***************************************************************************)
VARIABLES
    accounts,   \* HashMap<u16, Account> of process()
    pc,         \* "fold" while rows are read, then "done" or "error"
    out,        \* rows serialized to the writer
    n,          \* number of rows taken from the reader
    row,        \* the row read last
    prev,       \* accounts as they were before the row read last
    charged,    \* clients on whose account a chargeback has taken effect
    after_dispute,  \* the row before `row` was a dispute that took effect
                    \* on the client and tx `row` names
    after_resolve,  \* the same for a resolve that took effect
    seen,           \* clients named by a row that deserialized
    net,            \* per client: deposits made, less the withdrawals and
                    \* chargebacks that took effect
    deposited,      \* per client: sum of the amounts of the deposits made
    redeposited,    \* clients that deposited under a tx id they had used
    negative_amount,    \* a deposit or withdrawal row carried an amount < 0
    wrapped         \* an addition or subtraction has overflowed and wrapped:
                    \* the build runs without overflow checks

ledger == <<seen, net, deposited, redeposited, negative_amount>>

vars == <<accounts, pc, out, n, row, prev, charged, after_dispute,
          after_resolve, ledger, wrapped>>

NoRow == InRow("none", 0, 0, None)
BadRow == InRow("malformed", 0, 0, None)
EndOfStream == InRow("eof", 0, 0, None)

Init ==
    /\ accounts = EmptyMap
    /\ pc = "fold"
    /\ out = {}
    /\ n = 0
    /\ row = NoRow
    /\ prev = EmptyMap
    /\ charged = {}
    /\ after_dispute = FALSE
    /\ after_resolve = FALSE
    /\ seen = {}
    /\ net = [c \in Clients |-> 0]
    /\ deposited = [c \in Clients |-> 0]
    /\ redeposited = {}
    /\ negative_amount = FALSE
    /\ wrapped = FALSE

\* The match on (row.typ, row.amount), applied to the account of the row.
handle(acc, typ, tx, amount) ==
    CASE typ = "deposit" /\ IsSome(amount) ->
            apply_deposit(acc, tx, to_minor(Unwrap(amount)))
      [] typ = "withdrawal" /\ IsSome(amount) ->
            apply_withdrawal(acc, to_minor(Unwrap(amount)))
      [] typ = "dispute" -> apply_dispute(acc, tx)
      [] typ = "resolve" -> apply_resolve(acc, tx)
      [] typ = "chargeback" -> apply_chargeback(acc, tx)
      [] OTHER -> acc

\* The value fits the balance field.
fits(x) == I64_MIN <= x /\ x <= I64_MAX

\* One of the `+=` and `-=` of the arm the row takes leaves the range of the
\* field.  A build with overflow checks panics there, one without wraps.
overflows(acc, typ, tx, amount) ==
    CASE typ = "deposit" /\ IsSome(amount) ->
            ~fits(acc.available + to_minor(Unwrap(amount)))
      [] typ = "withdrawal" /\ IsSome(amount) ->
            /\ ~acc.locked
            /\ acc.available >= to_minor(Unwrap(amount))
            /\ ~fits(acc.available - to_minor(Unwrap(amount)))
      [] typ = "dispute" ->
            /\ in_state(acc, tx, "NotInitiated")
            /\ \/ ~fits(acc.available - acc.deposits[tx].amount)
               \/ ~fits(acc.held + acc.deposits[tx].amount)
      [] typ = "resolve" ->
            /\ in_state(acc, tx, "Initiated")
            /\ \/ ~fits(acc.available + acc.deposits[tx].amount)
               \/ ~fits(acc.held - acc.deposits[tx].amount)
      [] typ = "chargeback" ->
            /\ in_state(acc, tx, "Initiated")
            /\ ~fits(acc.held - acc.deposits[tx].amount)
      [] OTHER -> FALSE

\* What a row adds to available + held of the account it meets: the amount
\* of a deposit, minus the amount of a withdrawal or chargeback that takes
\* effect.
ledger_effect(acc, typ, tx, amount) ==
    CASE typ = "deposit" /\ IsSome(amount) -> to_minor(Unwrap(amount))
      [] typ = "withdrawal" /\ IsSome(amount) ->
            IF ~acc.locked /\ acc.available >= to_minor(Unwrap(amount))
            THEN -to_minor(Unwrap(amount))
            ELSE 0
      [] typ = "chargeback" ->
            IF in_state(acc, tx, "Initiated") THEN -acc.deposits[tx].amount
            ELSE 0
      [] OTHER -> 0

\* The record of the stream kept beside the accounts.
Record(typ, client, tx, amount) ==
    LET acc == entry_or_default(accounts, client)[client]
    IN  /\ seen' = seen \cup {client}
        /\ net' = [net EXCEPT ![client] = @ + ledger_effect(acc, typ, tx, amount)]
        /\ deposited' = [deposited EXCEPT ![client] =
                            IF typ = "deposit" /\ IsSome(amount)
                            THEN @ + to_minor(Unwrap(amount))
                            ELSE @]
        /\ redeposited' = IF typ = "deposit" /\ IsSome(amount)
                               /\ tx \in DOMAIN acc.deposits
                           THEN redeposited \cup {client}
                           ELSE redeposited
        /\ negative_amount' = \/ negative_amount
                               \/ /\ typ \in {"deposit", "withdrawal"}
                                  /\ IsSome(amount)
                                  /\ Unwrap(amount) < 0

\* One iteration of the loop body on a row that deserialized: the account
\* of the row's client is looked up or created, then the row is matched.
Step(typ, client, tx, amount) ==
    /\ pc = "fold"
    /\ n < MaxEvents
    /\ LET accs == entry_or_default(accounts, client)
       IN  /\ accounts' =
                [accs EXCEPT ![client] = handle(accs[client], typ, tx, amount)]
           /\ charged' = IF typ = "chargeback"
                            /\ in_state(accs[client], tx, "Initiated")
                         THEN charged \cup {client}
                         ELSE charged
    /\ after_dispute' = /\ row.typ = "dispute"
                        /\ row.client = client
                        /\ row.tx = tx
                        /\ in_state(entry_or_default(prev, client)[client],
                                    tx, "NotInitiated")
    /\ after_resolve' = /\ row.typ = "resolve"
                        /\ row.client = client
                        /\ row.tx = tx
                        /\ in_state(entry_or_default(prev, client)[client],
                                    tx, "Initiated")
    /\ Record(typ, client, tx, amount)
    /\ wrapped' = \/ wrapped
                  \/ overflows(entry_or_default(accounts, client)[client],
                               typ, tx, amount)
    /\ n' = n + 1
    /\ row' = InRow(typ, client, tx, amount)
    /\ prev' = accounts
    /\ UNCHANGED <<pc, out>>

\* The amount column of a dispute, resolve or chargeback row is not read.
AnyAmount == {None, Some(10)}

DepositArm ==
    \E c \in Clients, tx \in Txs, a \in Amounts :
        Step("deposit", c, tx, Some(a))

WithdrawalArm ==
    \E c \in Clients, tx \in Txs, a \in Amounts :
        Step("withdrawal", c, tx, Some(a))

DisputeArm ==
    \E c \in Clients, tx \in Txs, o \in AnyAmount :
        Step("dispute", c, tx, o)

ResolveArm ==
    \E c \in Clients, tx \in Txs, o \in AnyAmount :
        Step("resolve", c, tx, o)

ChargebackArm ==
    \E c \in Clients, tx \in Txs, o \in AnyAmount :
        Step("chargeback", c, tx, o)

\* `_ => ()`: a deposit or withdrawal row without an amount.
IgnoredArm ==
    \E typ \in {"deposit", "withdrawal"}, c \in Clients, tx \in Txs :
        Step(typ, c, tx, None)

\* Variant of ParseError: the row is skipped and the fold goes on.
ParseError_skip ==
    /\ pc = "fold"
    /\ n < MaxEvents
    /\ n' = n + 1
    /\ row' = BadRow
    /\ prev' = accounts
    /\ after_dispute' = FALSE
    /\ after_resolve' = FALSE
    /\ UNCHANGED <<accounts, pc, out, charged, ledger, wrapped>>

\* `let row: InRow = res?;` on a row that does not deserialize.
ParseError ==
    /\ pc = "fold"
    /\ n < MaxEvents
    /\ pc' = "error"
    /\ n' = n + 1
    /\ row' = BadRow
    /\ prev' = accounts
    /\ after_dispute' = FALSE
    /\ after_resolve' = FALSE
    /\ UNCHANGED <<accounts, out, charged, ledger, wrapped>>

\* Variant of Dump: accounts no row has changed are left out.
Dump_skip_untouched ==
    /\ pc = "fold"
    /\ pc' = "done"
    /\ out' = {OutRow(cl, accounts[cl]) :
                    cl \in {c \in DOMAIN accounts : accounts[c] # Account}}
    /\ row' = EndOfStream
    /\ prev' = accounts
    /\ after_dispute' = FALSE
    /\ after_resolve' = FALSE
    /\ UNCHANGED <<accounts, n, charged, ledger, wrapped>>

\* The reader is exhausted: every account is serialized.
Dump ==
    /\ pc = "fold"
    /\ pc' = "done"
    /\ out' = {OutRow(cl, accounts[cl]) : cl \in DOMAIN accounts}
    /\ row' = EndOfStream
    /\ prev' = accounts
    /\ after_dispute' = FALSE
    /\ after_resolve' = FALSE
    /\ UNCHANGED <<accounts, n, charged, ledger, wrapped>>

Next ==
    \/ DepositArm
    \/ WithdrawalArm
    \/ DisputeArm
    \/ ResolveArm
    \/ ChargebackArm
    \/ IgnoredArm
    \/ ParseError
    \/ Dump

Spec == Init /\ [][Next]_vars

(***************************************************************************)
(* The fold on amounts at the ends of the range.  An amount too large for  *)
(* an i64 is saturated by the cast in to_minor, and the next addition can  *)
(* overflow.  The build decides what an overflow does: with overflow       *)
(* checks the process panics, without them the value wraps.                *)
(***************************************************************************)
Extreme == {-(2 ^ Bits) * SubMinor, (2 ^ Bits) * SubMinor}

DepositExtreme ==
    \E c \in Clients, tx \in Txs, a \in Extreme :
        Step("deposit", c, tx, Some(a))

WithdrawalExtreme ==
    \E c \in Clients, tx \in Txs, a \in Extreme :
        Step("withdrawal", c, tx, Some(a))

\* A row whose arm overflows, in a build with overflow checks: the panic
\* unwinds out of process() and nothing is written.
OverflowPanic ==
    \E typ \in TxType, c \in Clients, tx \in Txs,
       o \in {Some(a) : a \in Amounts \cup Extreme} \cup {None} :
        /\ pc = "fold"
        /\ n < MaxEvents
        /\ ~wrapped
        /\ overflows(entry_or_default(accounts, c)[c], typ, tx, o)
        /\ accounts' = entry_or_default(accounts, c)
        /\ pc' = "panic"
        /\ n' = n + 1
        /\ row' = InRow(typ, c, tx, o)
        /\ prev' = accounts
        /\ after_dispute' = FALSE
        /\ after_resolve' = FALSE
        /\ UNCHANGED <<out, charged, ledger, wrapped>>

\* `acc.available + acc.held` of the dump overflows, in a build with
\* overflow checks: the rows of accounts the loop reached before are all
\* that can have been serialized.
DumpPanic ==
    /\ pc = "fold"
    /\ ~wrapped
    /\ \E cl \in DOMAIN accounts :
            ~fits(accounts[cl].available + accounts[cl].held)
    /\ \E done \in SUBSET {cl \in DOMAIN accounts :
                    fits(accounts[cl].available + accounts[cl].held)} :
            out' = {OutRow(cl, accounts[cl]) : cl \in done}
    /\ pc' = "panic"
    /\ row' = EndOfStream
    /\ prev' = accounts
    /\ after_dispute' = FALSE
    /\ after_resolve' = FALSE
    /\ UNCHANGED <<accounts, n, charged, ledger, wrapped>>

NextOverflow ==
    \/ DepositExtreme
    \/ WithdrawalExtreme
    \/ DisputeArm
    \/ ResolveArm
    \/ ChargebackArm
    \/ OverflowPanic
    \/ ParseError
    \/ Dump
    \/ DumpPanic

SpecOverflow == Init /\ [][NextOverflow]_vars

(***************************************************************************)
(* Properties.  `row` is the row handled last, Before(c) the account of c  *)
(* as the match saw it (after entry().or_default()) and After(c) the       *)
(* account once the row was handled.                                       *)
(***************************************************************************)
Before(c) == entry_or_default(prev, c)[c]
After(c) == accounts[c]
Total(acc) == acc.available + acc.held
HasState(acc, tx, state) ==
    tx \in DOMAIN acc.deposits /\ acc.deposits[tx].dispute_state = state

\* C1: a Withdrawal with amount a subtracts a from available when the
\* account is not locked and available >= a; otherwise available is
\* unchanged and the fold goes on without an error.  Held, locked and the
\* deposit records are unchanged either way.
C1_Withdrawal ==
    (row.typ = "withdrawal" /\ IsSome(row.amount)) =>
        LET a == to_minor(Unwrap(row.amount))
            old == Before(row.client)
            new == After(row.client)
        IN  /\ IF ~old.locked /\ old.available >= a
               THEN new.available = old.available - a
               ELSE new.available = old.available
            /\ pc = "fold"
            /\ new.held = old.held
            /\ new.locked = old.locked
            /\ new.deposits = old.deposits

\* A withdrawal that was applied although it exceeds available + held.
C1_Witness ==
    /\ row.typ = "withdrawal" /\ IsSome(row.amount)
    /\ LET a == to_minor(Unwrap(row.amount))
           old == Before(row.client)
       IN  /\ a > 0
           /\ ~old.locked
           /\ old.available >= a
           /\ a > Total(old)
           /\ After(row.client).available = old.available - a

\* C2: once an account is locked no Withdrawal changes its available
\* balance, whatever the amount and the balance.
C2_LockedNoWithdrawal ==
    (row.typ = "withdrawal" /\ row.client \in DOMAIN prev
        /\ prev[row.client].locked) =>
            After(row.client).available = prev[row.client].available

\* A withdrawal the funds of a locked account would cover.
C2_Witness ==
    /\ row.typ = "withdrawal" /\ IsSome(row.amount)
    /\ row.client \in DOMAIN prev
    /\ prev[row.client].locked
    /\ to_minor(Unwrap(row.amount)) > 0
    /\ prev[row.client].available >= to_minor(Unwrap(row.amount))
    /\ After(row.client).available = prev[row.client].available

\* C3: a Dispute is applied iff the client holds a deposit for tx in state
\* NotInitiated, locked or not.  Applied, it marks the deposit Initiated and
\* moves its amount from available to held, leaving the total and the lock
\* alone; not applied, it changes nothing of the account.
C3_Dispute ==
    (row.typ = "dispute") =>
        LET old == Before(row.client)
            new == After(row.client)
            tx == row.tx
        IN  IF HasState(old, tx, "NotInitiated")
            THEN /\ new.deposits =
                        [old.deposits EXCEPT ![tx].dispute_state = "Initiated"]
                 /\ new.available = old.available - old.deposits[tx].amount
                 /\ new.held = old.held + old.deposits[tx].amount
                 /\ Total(new) = Total(old)
                 /\ new.locked = old.locked
            ELSE new = old

\* A dispute applied on a locked account.
C3_Witness ==
    /\ row.typ = "dispute"
    /\ HasState(Before(row.client), row.tx, "NotInitiated")
    /\ Before(row.client).locked
    /\ Before(row.client).deposits[row.tx].amount > 0
    /\ HasState(After(row.client), row.tx, "Initiated")

\* C4: a Chargeback is applied iff the client holds a deposit for tx in
\* state Initiated.  Applied, it marks the deposit ChargedBack, takes its
\* amount out of held, locks the account and leaves available alone; not
\* applied, it changes nothing of the account.
C4_Chargeback ==
    (row.typ = "chargeback") =>
        LET old == Before(row.client)
            new == After(row.client)
            tx == row.tx
        IN  IF HasState(old, tx, "Initiated")
            THEN /\ new.deposits =
                        [old.deposits EXCEPT ![tx].dispute_state = "ChargedBack"]
                 /\ new.held = old.held - old.deposits[tx].amount
                 /\ new.locked
                 /\ new.available = old.available
                 /\ Total(new) = Total(old) - old.deposits[tx].amount
            ELSE new = old

\* A chargeback applied on an unlocked account with funds available.
C4_Witness ==
    /\ row.typ = "chargeback"
    /\ HasState(Before(row.client), row.tx, "Initiated")
    /\ ~Before(row.client).locked
    /\ Before(row.client).deposits[row.tx].amount > 0
    /\ Before(row.client).available > 0
    /\ After(row.client).locked
    /\ HasState(After(row.client), row.tx, "ChargedBack")

\* C5: Dispute(tx) on a NotInitiated deposit immediately followed by
\* Resolve(tx) leaves available, held, locked and the deposit's dispute state
\* as they were before the Dispute.  The unprimed state is the one the
\* Dispute produced (prev holds the accounts before it), the primed state
\* the one the Resolve produces.
C5_DisputeResolveRoundTrip ==
    [][(/\ row.typ = "dispute"
        /\ HasState(Before(row.client), row.tx, "NotInitiated")
        /\ row'.typ = "resolve"
        /\ row'.client = row.client
        /\ row'.tx = row.tx)
       => LET old == Before(row.client)
              new == accounts'[row.client]
          IN  /\ new.available = old.available
              /\ new.held = old.held
              /\ new.locked = old.locked
              /\ new.deposits[row.tx].dispute_state =
                    old.deposits[row.tx].dispute_state]_vars

\* A Resolve that took effect right after the Dispute of the same deposit.
C5_Witness ==
    /\ row.typ = "resolve"
    /\ after_dispute
    /\ HasState(Before(row.client), row.tx, "Initiated")
    /\ Before(row.client).deposits[row.tx].amount # 0
    /\ Before(row.client).held # 0
    /\ HasState(After(row.client), row.tx, "NotInitiated")

\* C6: every deposit record is in one of the three dispute states; a record
\* enters ChargedBack only by a Chargeback on its client and tx while it is
\* Initiated, and enters Initiated only by a Dispute on its client and tx
\* while it is NotInitiated.
C6_ChargedBackOnlyViaInitiated ==
    \A c \in DOMAIN accounts : \A tx \in DOMAIN accounts[c].deposits :
        LET st == accounts[c].deposits[tx].dispute_state
        IN  /\ st \in DisputeState
            /\ (st = "ChargedBack" /\ ~HasState(Before(c), tx, "ChargedBack"))
                => /\ row.typ = "chargeback"
                   /\ row.client = c
                   /\ row.tx = tx
                   /\ HasState(Before(c), tx, "Initiated")
            /\ (st = "Initiated" /\ ~HasState(Before(c), tx, "Initiated"))
                => /\ row.typ = "dispute"
                   /\ row.client = c
                   /\ row.tx = tx
                   /\ HasState(Before(c), tx, "NotInitiated")

\* A record that has just become ChargedBack.
C6_Witness ==
    /\ row.typ = "chargeback"
    /\ HasState(Before(row.client), row.tx, "Initiated")
    /\ HasState(After(row.client), row.tx, "ChargedBack")

\* C7 as stated: once the record under (client, tx) is ChargedBack, no
\* event of any type changes its dispute state.
C7_Original ==
    \A c \in DOMAIN prev : \A tx \in DOMAIN prev[c].deposits :
        HasState(prev[c], tx, "ChargedBack")
            => HasState(accounts[c], tx, "ChargedBack")

\* C7 amended: a ChargedBack record is changed by no event other than a
\* Deposit with an amount on the same client and tx (which replaces it); in
\* particular a Dispute, Resolve or Chargeback naming it changes nothing of
\* the account.
C7_ChargedBackTerminal ==
    \A c \in DOMAIN prev : \A tx \in DOMAIN prev[c].deposits :
        HasState(prev[c], tx, "ChargedBack")
            => /\ ~(row.typ = "deposit" /\ IsSome(row.amount)
                        /\ row.client = c /\ row.tx = tx)
                    => /\ tx \in DOMAIN accounts[c].deposits
                       /\ accounts[c].deposits[tx] = prev[c].deposits[tx]
               /\ (row.typ \in {"dispute", "resolve", "chargeback"}
                        /\ row.client = c /\ row.tx = tx)
                    => accounts[c] = prev[c]

\* A Dispute naming a ChargedBack record, which stays ChargedBack.
C7_Witness ==
    /\ row.typ = "dispute"
    /\ row.client \in DOMAIN prev
    /\ HasState(prev[row.client], row.tx, "ChargedBack")
    /\ prev[row.client].deposits[row.tx].amount # 0
    /\ HasState(After(row.client), row.tx, "ChargedBack")

\* C8: an account is locked iff a Chargeback has taken effect on it, and a
\* locked account stays locked.
C8_LockedIffChargedBack ==
    /\ \A c \in DOMAIN accounts : accounts[c].locked <=> c \in charged
    /\ \A c \in DOMAIN prev : prev[c].locked => accounts[c].locked
    /\ charged \subseteq DOMAIN accounts

\* A deposit on a locked account while another account is unlocked.
C8_Witness ==
    /\ row.typ = "deposit" /\ IsSome(row.amount)
    /\ row.client \in DOMAIN prev
    /\ prev[row.client].locked
    /\ After(row.client).locked
    /\ \E c \in DOMAIN accounts : ~accounts[c].locked

\* The semantically invalid rows of the spec's section 7, judged on the
\* accounts the row meets.
Invalid(r, accs) ==
    LET acc == IF r.client \in DOMAIN accs THEN accs[r.client] ELSE Account
    IN  \/ r.typ \in {"deposit", "withdrawal"} /\ ~IsSome(r.amount)
        \/ /\ r.typ = "withdrawal" /\ IsSome(r.amount)
           /\ (acc.locked \/ acc.available < to_minor(Unwrap(r.amount)))
        \/ r.typ = "dispute" /\ ~HasState(acc, r.tx, "NotInitiated")
        \/ /\ r.typ \in {"resolve", "chargeback"}
           /\ ~HasState(acc, r.tx, "Initiated")

\* C9 as stated: an invalid row leaves the client-to-account mapping,
\* the set of clients included, as it was.
C9_Original ==
    Invalid(row, prev) => accounts = prev

\* C9 amended: an invalid row changes no account that exists; the one
\* change it can make is to add its client, when the client had no account,
\* with a zero, unlocked account without deposits.
C9_InvalidRowNoChange ==
    Invalid(row, prev) =>
        /\ \A c \in DOMAIN prev : c \in DOMAIN accounts /\ accounts[c] = prev[c]
        /\ DOMAIN accounts = DOMAIN prev \cup {row.client}
        /\ row.client \notin DOMAIN prev =>
                /\ accounts[row.client].available = 0
                /\ accounts[row.client].held = 0
                /\ ~accounts[row.client].locked
                /\ DOMAIN accounts[row.client].deposits = {}
        /\ pc = "fold"

\* An invalid row naming a client without an account, met while another
\* client holds funds: the account is created, the other one stays.
C9_Witness ==
    /\ Invalid(row, prev)
    /\ row.client \notin DOMAIN prev
    /\ row.client \in DOMAIN accounts
    /\ \E c \in DOMAIN prev : prev[c].available > 0 /\ accounts[c] = prev[c]

\* C10: a Deposit with an amount always takes effect: available grows by the
\* amount, held and locked stay, and the record under tx becomes
\* {amount, NotInitiated} whatever was recorded there; the other records
\* stay.
C10_Deposit ==
    (row.typ = "deposit" /\ IsSome(row.amount)) =>
        LET a == to_minor(Unwrap(row.amount))
            old == Before(row.client)
            new == After(row.client)
        IN  /\ new.available = old.available + a
            /\ new.held = old.held
            /\ new.locked = old.locked
            /\ DOMAIN new.deposits = DOMAIN old.deposits \cup {row.tx}
            /\ new.deposits[row.tx].amount = a
            /\ new.deposits[row.tx].dispute_state = "NotInitiated"
            /\ \A tx \in DOMAIN old.deposits \ {row.tx} :
                    new.deposits[tx] = old.deposits[tx]

\* A deposit that overwrites a record under dispute with another amount:
\* the funds the old record moved into held stay there.
C10_Witness ==
    /\ row.typ = "deposit" /\ IsSome(row.amount)
    /\ HasState(Before(row.client), row.tx, "Initiated")
    /\ Before(row.client).deposits[row.tx].amount
            # to_minor(Unwrap(row.amount))
    /\ Before(row.client).held # 0
    /\ After(row.client).held = Before(row.client).held
    /\ HasState(After(row.client), row.tx, "NotInitiated")

\* C11: available + held of every account equals the sum of the deposits
\* made into it, minus the withdrawals that took effect, minus the amounts
\* chargebacks took out; a Dispute or Resolve leaves available + held as it
\* was.
C11_TotalIsSumOfEffects ==
    /\ \A c \in DOMAIN accounts : Total(accounts[c]) = net[c]
    /\ \A c \in Clients \ DOMAIN accounts : net[c] = 0
    /\ row.typ \in {"dispute", "resolve"} =>
            Total(After(row.client)) = Total(Before(row.client))

\* A chargeback that took effect and left a total that is neither zero nor
\* the sum of the account's deposits.
C11_Witness ==
    /\ row.typ = "chargeback"
    /\ HasState(Before(row.client), row.tx, "Initiated")
    /\ Before(row.client).deposits[row.tx].amount > 0
    /\ Total(After(row.client)) # 0
    /\ Total(After(row.client)) # deposited[row.client]
    /\ Total(After(row.client)) = net[row.client]

\* C12 as stated: available + held of an account never exceeds the sum of
\* the deposits made into it, whatever the sign of the amounts.
C12_TotalAtMostDeposits ==
    \A c \in DOMAIN accounts : Total(accounts[c]) <= deposited[c]

\* C13: a row changes no account but the one of the client it names, and a
\* Dispute, Resolve or Chargeback naming a tx the client never deposited
\* changes nothing of that client's account either.
C13_OtherClientsUntouched ==
    /\ \A c \in DOMAIN prev :
            c # row.client => c \in DOMAIN accounts /\ accounts[c] = prev[c]
    /\ \A c \in DOMAIN accounts : c \in DOMAIN prev \/ c = row.client
    /\ (row.typ \in {"dispute", "resolve", "chargeback"}
            /\ row.tx \notin DOMAIN Before(row.client).deposits)
        => After(row.client) = Before(row.client)

\* A Dispute naming a tx that only another client deposited, whose deposit
\* and balances stay as they were.
C13_Witness ==
    /\ row.typ = "dispute"
    /\ row.tx \notin DOMAIN Before(row.client).deposits
    /\ \E c \in DOMAIN prev :
            /\ c # row.client
            /\ HasState(prev[c], row.tx, "NotInitiated")
            /\ prev[c].deposits[row.tx].amount > 0
            /\ accounts[c] = prev[c]
    /\ After(row.client).available = 0
    /\ After(row.client).held = 0

\* The amount in minor units that a formatted field stands for.
Value(m) == (IF m.neg THEN -1 ELSE 1) * (m.whole * 10000 + m.frac)

\* C14: when the whole stream parsed, the output has exactly one row for
\* each client named by a row of the stream and no other row, and every row
\* carries the final available, held and lock of the account, with
\* total = available + held.
C14_OneRowPerClient ==
    pc = "done" =>
        /\ {r.client : r \in out} = seen
        /\ Cardinality(out) = Cardinality(seen)
        /\ \A r \in out :
            /\ r.client \in DOMAIN accounts
            /\ r.available = to_major(accounts[r.client].available)
            /\ r.held = to_major(accounts[r.client].held)
            /\ r.total = to_major(Total(accounts[r.client]))
            /\ r.locked = accounts[r.client].locked
            /\ Value(r.total) = Value(r.available) + Value(r.held)

\* Two rows: one of a client whose rows all had no effect, all zero and
\* unlocked, and one of a client with funds available and funds held.
C14_Witness ==
    /\ pc = "done"
    /\ Cardinality(out) = 2
    /\ \E r \in out :
        /\ deposited[r.client] = 0
        /\ Value(r.available) = 0 /\ Value(r.held) = 0 /\ Value(r.total) = 0
        /\ ~r.locked
    /\ \E r \in out :
        /\ Value(r.available) > 0
        /\ Value(r.held) > 0
        /\ Value(r.total) = Value(r.available) + Value(r.held)

\* C15: a row that fails to deserialize ends the run in an error at that
\* row: nothing is applied after it and no account row is written; rows are
\* written only once the whole stream has been folded.
C15_ParseErrorNoOutput ==
    /\ row = BadRow => pc = "error"
    /\ pc = "error" => /\ row = BadRow
                       /\ accounts = prev
                       /\ out = {}
    /\ out # {} => pc = "done"

\* A stream that fails after rows that left funds on an account.
C15_Witness ==
    /\ pc = "error"
    /\ out = {}
    /\ n < MaxEvents
    /\ \E c \in DOMAIN accounts :
            accounts[c].available > 0 /\ accounts[c].held > 0

\* C16: a Resolve takes effect iff the deposit is Initiated: it returns the
\* deposit to NotInitiated and moves its amount back from held to available;
\* otherwise it changes nothing.  A Dispute that follows a Resolve that took
\* effect on the same deposit takes effect again.
C16_ResolveReenablesDispute ==
    /\ row.typ = "resolve" =>
        LET old == Before(row.client)
            new == After(row.client)
            tx == row.tx
        IN  IF HasState(old, tx, "Initiated")
            THEN /\ new.deposits =
                      [old.deposits EXCEPT ![tx].dispute_state = "NotInitiated"]
                 /\ new.available = old.available + old.deposits[tx].amount
                 /\ new.held = old.held - old.deposits[tx].amount
                 /\ new.locked = old.locked
            ELSE new = old
    /\ (row.typ = "dispute" /\ after_resolve) =>
        LET old == Before(row.client)
            new == After(row.client)
            tx == row.tx
        IN  /\ HasState(old, tx, "NotInitiated")
            /\ HasState(new, tx, "Initiated")
            /\ new.available = old.available - old.deposits[tx].amount
            /\ new.held = old.held + old.deposits[tx].amount

\* A second dispute of a deposit, right after its first was resolved.
C16_Witness ==
    /\ row.typ = "dispute"
    /\ after_resolve
    /\ HasState(After(row.client), row.tx, "Initiated")
    /\ After(row.client).deposits[row.tx].amount > 0
    /\ After(row.client).held = After(row.client).deposits[row.tx].amount

(***************************************************************************)
(* Exactness of the balance arithmetic, checked under SpecOverflow.        *)
(***************************************************************************)
InRange(x) == -(2 ^ (Bits - 1)) <= x /\ x <= 2 ^ (Bits - 1) - 1

\* available and held after row r on account old, in unbounded integers.
ExactAfter(old, r) ==
    LET m == IF IsSome(r.amount) THEN to_minor(Unwrap(r.amount)) ELSE 0
        d == IF r.tx \in DOMAIN old.deposits
             THEN old.deposits[r.tx].amount ELSE 0
    IN  CASE r.typ = "deposit" /\ IsSome(r.amount) ->
                [available |-> old.available + m, held |-> old.held]
          [] /\ r.typ = "withdrawal" /\ IsSome(r.amount)
             /\ ~old.locked /\ old.available >= m ->
                [available |-> old.available - m, held |-> old.held]
          [] r.typ = "dispute" /\ HasState(old, r.tx, "NotInitiated") ->
                [available |-> old.available - d, held |-> old.held + d]
          [] r.typ = "resolve" /\ HasState(old, r.tx, "Initiated") ->
                [available |-> old.available + d, held |-> old.held - d]
          [] r.typ = "chargeback" /\ HasState(old, r.tx, "Initiated") ->
                [available |-> old.available, held |-> old.held - d]
          [] OTHER ->
                [available |-> old.available, held |-> old.held]

RECURSIVE SumInitiated(_, _)
SumInitiated(deposits, txs) ==
    IF txs = {} THEN 0
    ELSE LET tx == CHOOSE t \in txs : TRUE
         IN  (IF deposits[tx].dispute_state = "Initiated"
              THEN deposits[tx].amount ELSE 0)
             + SumInitiated(deposits, txs \ {tx})

\* Sum of the recorded amounts of the deposits under dispute.
Disputed(acc) == SumInitiated(acc.deposits, DOMAIN acc.deposits)

\* C18: for a client that never deposited twice under one tx id, held is
\* the sum of the recorded amounts of its deposits in state Initiated, and
\* so 0 when none is under dispute.
C18_HeldIsDisputedSum ==
    \A c \in DOMAIN accounts :
        c \notin redeposited => accounts[c].held = Disputed(accounts[c])

\* Two deposits of a client without a reused tx, one under dispute and the
\* other charged back: held is the amount of the first alone.
C18_Witness ==
    \E c \in DOMAIN accounts :
        /\ c \notin redeposited
        /\ \E t1, t2 \in DOMAIN accounts[c].deposits :
            /\ accounts[c].deposits[t1].dispute_state = "Initiated"
            /\ accounts[c].deposits[t2].dispute_state = "ChargedBack"
            /\ accounts[c].deposits[t1].amount # 0
            /\ accounts[c].deposits[t2].amount # 0
            /\ accounts[c].held = accounts[c].deposits[t1].amount

\* C19: when no Deposit or Withdrawal carried a negative amount, held is
\* never negative, whether or not tx ids were reused: held covers the
\* recorded amounts of the deposits under dispute, a record that stays
\* under dispute keeps its amount, and an applied Resolve or Chargeback
\* takes from held the recorded amount of a deposit that was under dispute.
C19_HeldNonNegative ==
    ~negative_amount =>
        /\ \A c \in DOMAIN accounts :
            /\ accounts[c].held >= 0
            /\ accounts[c].held >= Disputed(accounts[c])
            /\ \A tx \in DOMAIN accounts[c].deposits :
                    accounts[c].deposits[tx].amount >= 0
        /\ row.typ \in TxType =>
            \A tx \in DOMAIN Before(row.client).deposits :
                (/\ HasState(Before(row.client), tx, "Initiated")
                 /\ HasState(After(row.client), tx, "Initiated")) =>
                    After(row.client).deposits[tx].amount
                        = Before(row.client).deposits[tx].amount
        /\ (row.typ \in {"resolve", "chargeback"}
            /\ After(row.client).held # Before(row.client).held) =>
            /\ HasState(Before(row.client), row.tx, "Initiated")
            /\ After(row.client).held
                = Before(row.client).held
                    - Before(row.client).deposits[row.tx].amount
            /\ Before(row.client).held
                >= Before(row.client).deposits[row.tx].amount

\* A deposit was overwritten while under dispute, its tx disputed again and
\* then resolved: held keeps the amount of the overwritten record, with no
\* deposit under dispute left.
C19_Witness ==
    /\ ~negative_amount
    /\ row.typ = "resolve"
    /\ row.client \in redeposited
    /\ HasState(Before(row.client), row.tx, "Initiated")
    /\ After(row.client).held > 0
    /\ Disputed(After(row.client)) = 0

\* C20: when no Deposit or Withdrawal carried a negative amount, a row that
\* takes available from non-negative to negative is a Dispute that took
\* effect, and an applied Withdrawal leaves available >= 0.
C20_OnlyDisputeOverdraws ==
    (~negative_amount /\ row.typ \in TxType) =>
        LET old == Before(row.client)
            new == After(row.client)
        IN  /\ (old.available >= 0 /\ new.available < 0) =>
                /\ row.typ = "dispute"
                /\ HasState(old, row.tx, "NotInitiated")
                /\ HasState(new, row.tx, "Initiated")
            /\ (row.typ = "withdrawal" /\ new # old) => new.available >= 0

\* A deposit is withdrawn in full and then disputed: available goes from 0
\* below 0.
C20_Witness ==
    /\ ~negative_amount
    /\ row.typ = "dispute"
    /\ Before(row.client).available = 0
    /\ After(row.client).available < 0
    /\ After(row.client).held = -After(row.client).available

====
